---------------------------- MODULE Spec2Model ----------------------------
(***************************************************************************)
(* A model of src/algolia.js: the field/filter transformation of content   *)
(* records (prepareContents), the chunking of the document sequence        *)
(* (splitIntoChunks) and the clear-then-upload run (algoliaCommand).       *)
(*                                                                         *)
(* JavaScript strings are sequences of one-character strings, so that      *)
(* split, upperFirst, substr and the key synthesis are computed character  *)
(* by character.  A JavaScript object is a function whose DOMAIN is the    *)
(* set of its own property names.                                          *)
(***************************************************************************)
EXTENDS Integers, Sequences, FiniteSets, TLC

(***************************************************************************)
(* Bounds of the model.                                                    *)
(***************************************************************************)
MaxRecords == 2
MaxSpecs == 2
MaxLen == 4
MaxChunkSize == 3
MaxPosts == 2
MaxPages == 1
MaxConfigChunk == 2

(***************************************************************************)
(* String literals.                                                        *)
(***************************************************************************)
s_id == <<"_", "i", "d">>
s_title == <<"t", "i", "t", "l", "e">>
s_objectID == <<"o", "b", "j", "e", "c", "t", "I", "D">>
s_tags == <<"t", "a", "g", "s">>
s_categories == <<"c", "a", "t", "e", "g", "o", "r", "i", "e", "s">>
s_content == <<"c", "o", "n", "t", "e", "n", "t">>
s_strip == <<"s", "t", "r", "i", "p">>
s_truncate == <<"t", "r", "u", "n", "c", "a", "t", "e">>
s_toString == <<"t", "o", "S", "t", "r", "i", "n", "g">>
s_hello == <<"h", "e", "l", "l", "o">>
s_he == <<"h", "e">>
s_hi == <<"h", "i">>
s_bhi == <<"<", "b", ">", "h", "i", "<", "/", "b", ">">>
s_objectUndefined ==
  <<"[", "o", "b", "j", "e", "c", "t", " ", "U", "n", "d", "e", "f", "i", "n", "e", "d", "]">>

(* Filter-bearing field specs as the configuration writes them. *)
f_contentStrip == <<"c", "o", "n", "t", "e", "n", "t", ":", "s", "t", "r", "i", "p">>
f_contentTruncate == <<"c", "o", "n", "t", "e", "n", "t", ":", "t", "r", "u", "n", "c", "a", "t", "e", ",", "0", ",", "2">>
f_contentStripTruncate == <<"c", "o", "n", "t", "e", "n", "t", ":", "s", "t", "r", "i", "p", ":", "t", "r", "u", "n", "c", "a", "t", "e", ",", "1", ",", "3">>
f_contentTruncateStrip == <<"c", "o", "n", "t", "e", "n", "t", ":", "t", "r", "u", "n", "c", "a", "t", "e", ",", "1", ",", "3", ":", "s", "t", "r", "i", "p">>
f_excerptStrip == <<"e", "x", "c", "e", "r", "p", "t", ":", "s", "t", "r", "i", "p">>
f_contentLower == <<"c", "o", "n", "t", "e", "n", "t", ":", "l", "o", "w", "e", "r">>
f_contentToString == <<"c", "o", "n", "t", "e", "n", "t", ":", "t", "o", "S", "t", "r", "i", "n", "g">>

(* Synthesized document keys, written out for the statements below. *)
k_contentStrip == <<"c", "o", "n", "t", "e", "n", "t", "S", "t", "r", "i", "p">>
k_contentTruncate == <<"c", "o", "n", "t", "e", "n", "t", "T", "r", "u", "n", "c", "a", "t", "e">>
k_contentStripTruncate == <<"c", "o", "n", "t", "e", "n", "t", "S", "t", "r", "i", "p", "T", "r", "u", "n", "c", "a", "t", "e">>
k_contentTruncateStrip == <<"c", "o", "n", "t", "e", "n", "t", "T", "r", "u", "n", "c", "a", "t", "e", "S", "t", "r", "i", "p">>
k_excerptStrip == <<"e", "x", "c", "e", "r", "p", "t", "S", "t", "r", "i", "p">>
k_contentToString == <<"c", "o", "n", "t", "e", "n", "t", "T", "o", "S", "t", "r", "i", "n", "g">>
k_contentLower == <<"c", "o", "n", "t", "e", "n", "t", "L", "o", "w", "e", "r">>

(***************************************************************************)
(* String primitives of the language used by the source.                   *)
(***************************************************************************)
LowerCaseLetters ==
  <<"a", "b", "c", "d", "e", "f", "g", "h", "i", "j", "k", "l", "m",
    "n", "o", "p", "q", "r", "s", "t", "u", "v", "w", "x", "y", "z">>

UpperCaseLetters ==
  <<"A", "B", "C", "D", "E", "F", "G", "H", "I", "J", "K", "L", "M",
    "N", "O", "P", "Q", "R", "S", "T", "U", "V", "W", "X", "Y", "Z">>

toUpperCase(c) ==
  IF \E i \in 1..Len(LowerCaseLetters) : LowerCaseLetters[i] = c
  THEN UpperCaseLetters[CHOOSE i \in 1..Len(LowerCaseLetters) : LowerCaseLetters[i] = c]
  ELSE c

(* String.prototype.split on a one-character separator *)
RECURSIVE split(_, _)
split(string, sep) ==
  IF \A i \in 1..Len(string) : string[i] # sep
  THEN <<string>>
  ELSE LET i == CHOOSE i \in 1..Len(string) :
                  /\ string[i] = sep
                  /\ \A j \in 1..(i - 1) : string[j] # sep
       IN <<SubSeq(string, 1, i - 1)>> \o split(SubSeq(string, i + 1, Len(string)), sep)

(* Array.prototype.join('') *)
RECURSIVE join(_)
join(strings) ==
  IF Len(strings) = 0 THEN <<>> ELSE Head(strings) \o join(Tail(strings))

Digits == <<"0", "1", "2", "3", "4", "5", "6", "7", "8", "9">>

(* ToNumber of a string of decimal digits; -1 stands for NaN *)
RECURSIVE toNumber(_)
toNumber(string) ==
  IF Len(string) = 0 THEN 0
  ELSE LET last == string[Len(string)]
           init == toNumber(SubSeq(string, 1, Len(string) - 1))
       IN IF init = -1 \/ ~ \E d \in 1..10 : Digits[d] = last
          THEN -1
          ELSE 10 * init + (CHOOSE d \in 1..10 : Digits[d] = last) - 1

Min(a, b) == IF a < b THEN a ELSE b
Max(a, b) == IF a > b THEN a ELSE b

(* String.prototype.substr(start, length) on arguments given as strings;
   a missing start is 0, a missing length reaches the end, NaN is 0 *)
substr(string, args) ==
  LET num(i) == IF toNumber(args[i]) = -1 THEN 0 ELSE toNumber(args[i])
      start == IF Len(args) >= 1 THEN Min(num(1), Len(string)) ELSE 0
      length == IF Len(args) >= 2 THEN num(2) ELSE Len(string)
      end == Min(start + length, Len(string))
  IN SubSeq(string, start + 1, end)

(***************************************************************************)
(* Objects.                                                                *)
(***************************************************************************)
EmptyObject == [k \in {} |-> <<>>]

hasOwnProperty(object, name) == name \in DOMAIN object

(* object[name] = value *)
Put(object, name, value) ==
  [k \in DOMAIN object \cup {name} |-> IF k = name THEN value ELSE object[k]]

Elements(array) == {array[i] : i \in 1..Len(array)}

(***************************************************************************)
(* FILTER_FUNCTIONS and the functions it names.                            *)
(***************************************************************************)

(* striptags: the text outside the tags; a '<' opens a tag, the matching
   '>' closes it *)
RECURSIVE stripFrom(_, _)
stripFrom(html, depth) ==
  IF Len(html) = 0 THEN <<>>
  ELSE LET char == Head(html)
           rest == Tail(html)
       IN IF depth = 0
          THEN (IF char = "<" THEN stripFrom(rest, 1) ELSE <<char>> \o stripFrom(rest, 0))
          ELSE (IF char = "<" THEN stripFrom(rest, depth + 1)
                ELSE IF char = ">" THEN stripFrom(rest, depth - 1)
                ELSE stripFrom(rest, depth))

striptags(html) == stripFrom(html, 0)

(* A variant: post.slice(start, end), end an index instead of a length *)
truncateSlice(post, args) ==
  SubSeq(post, toNumber(args[1]) + 1, Min(toNumber(args[2]), Len(post)))

truncate(post, args) == substr(post, args)

(* The own properties of the FILTER_FUNCTIONS object literal. *)
FILTER_FUNCTIONS == {s_strip, s_truncate}

(* The object literal inherits the members of Object.prototype; toString is
   the one the model carries. *)
InheritedMembers == {s_toString}

(* FILTER_FUNCTIONS[filterName]: a property read, own or inherited *)
lookupFilter(filterName) ==
  IF filterName \in FILTER_FUNCTIONS THEN filterName
  ELSE IF filterName \in InheritedMembers THEN filterName
  ELSE <<>>

(* FILTER_FUNCTIONS[filterName].apply(this, filterArgs), filterArgs being the
   value followed by the filter's own arguments.  A read of a missing member
   is undefined, and .apply on it throws. *)
applyThrows(filterName) == lookupFilter(filterName) = <<>>

applyFilter(filterName, fieldValue, args) ==
  IF lookupFilter(filterName) = s_strip THEN striptags(fieldValue)
  ELSE IF lookupFilter(filterName) = s_truncate THEN truncate(fieldValue, args)
  ELSE s_objectUndefined

(***************************************************************************)
(* pick, upperFirst, getBasicFields, getFieldsWithFilters.                 *)
(***************************************************************************)
pick(object, attributes) ==
  [attribute \in {a \in Elements(attributes) : hasOwnProperty(object, a)}
     |-> object[attribute]]

upperFirst(string) ==
  (IF Len(string) = 0 THEN <<>> ELSE <<toUpperCase(string[1])>>)
    \o SubSeq(string, 2, Len(string))

(* /:/.test(field) *)
hasColon(field) == \E i \in 1..Len(field) : field[i] = ":"

getBasicFields(fields) == SelectSeq(fields, LAMBDA field : ~ hasColon(field))

getFieldsWithFilters(fields) == SelectSeq(fields, LAMBDA field : hasColon(field))

(***************************************************************************)
(* prepareContents.  The execution of the map callback on one record is a  *)
(* record: the document being built (contentToIndex), the warnings logged  *)
(* (warns), the filter calls made (calls) and whether a TypeError was      *)
(* thrown (threw).  Once an execution has thrown, nothing after it runs.   *)
(***************************************************************************)

(* lines 71-76: one taxonomy field of one record *)
extractTaxonomy(exec, initialContent, field) ==
  IF exec.threw THEN exec
  ELSE IF ~ hasOwnProperty(initialContent, field)
       \* contentToIndex[field] = [] is done, then undefined.data throws
       THEN [exec EXCEPT !.contentToIndex = Put(@, field, <<>>), !.threw = TRUE]
       ELSE [exec EXCEPT !.contentToIndex =
               Put(@, field, [i \in 1..Len(initialContent[field].data)
                                |-> initialContent[field].data[i].name])]

RECURSIVE extractAll(_, _, _)
extractAll(exec, initialContent, tagsAndCategoriesFields) ==
  IF Len(tagsAndCategoriesFields) = 0 THEN exec
  ELSE extractAll(extractTaxonomy(exec, initialContent, Head(tagsAndCategoriesFields)),
                  initialContent, Tail(tagsAndCategoriesFields))

(* lines 91-99: the filters of one chain, left to right.  chain is the state
   of the inner loop: the spec, fieldValue, indexedFieldName, calls, threw. *)
executeFilter(chain, filter) ==
  IF chain.threw THEN chain
  ELSE LET filterArgs == split(filter, ",")
           filterName == Head(filterArgs)
           args == Tail(filterArgs)
           call == [spec |-> chain.spec, name |-> filterName,
                    value |-> chain.fieldValue, args |-> args]
       IN IF applyThrows(filterName)
          THEN [chain EXCEPT !.indexedFieldName = Append(@, upperFirst(filterName)),
                             !.threw = TRUE]
          ELSE [chain EXCEPT !.indexedFieldName = Append(@, upperFirst(filterName)),
                             !.calls = Append(@, call),
                             !.fieldValue = applyFilter(filterName, chain.fieldValue, args)]

RECURSIVE executeFilters(_, _)
executeFilters(chain, fieldFilters) ==
  IF Len(fieldFilters) = 0 THEN chain
  ELSE executeFilters(executeFilter(chain, Head(fieldFilters)), Tail(fieldFilters))

(* A variant: the warning without the return, so that the chain runs on an
   undefined value and throws *)
executeFieldNoReturn(exec, initialContent, field) ==
  IF exec.threw THEN exec
  ELSE IF ~ hasOwnProperty(initialContent, Head(split(field, ":")))
       THEN [exec EXCEPT !.warns =
               Append(@, [title |-> initialContent[s_title], spec |-> field,
                          field |-> Head(split(field, ":"))]),
             !.threw = TRUE]
       ELSE exec

(* lines 79-103: one filter-bearing spec on one record *)
executeField(exec, initialContent, field) ==
  IF exec.threw THEN exec
  ELSE LET parts == split(field, ":")
           fieldName == Head(parts)
           fieldFilters == Tail(parts)
       IN IF ~ hasOwnProperty(initialContent, fieldName)
          THEN [exec EXCEPT !.warns =
                  Append(@, [title |-> initialContent[s_title], spec |-> field,
                             field |-> fieldName])]
          ELSE LET chain == executeFilters(
                              [spec |-> field,
                               fieldValue |-> initialContent[fieldName],
                               indexedFieldName |-> <<>>,
                               calls |-> exec.calls,
                               threw |-> FALSE],
                              fieldFilters)
               IN IF chain.threw
                  THEN [exec EXCEPT !.calls = chain.calls, !.threw = TRUE]
                  ELSE [exec EXCEPT
                          !.calls = chain.calls,
                          !.contentToIndex =
                             Put(@, fieldName \o join(chain.indexedFieldName),
                                 chain.fieldValue)]

RECURSIVE executeFields(_, _, _)
executeFields(exec, initialContent, fieldsWithFilters) ==
  IF Len(fieldsWithFilters) = 0 THEN exec
  ELSE executeFields(executeField(exec, initialContent, Head(fieldsWithFilters)),
                     initialContent, Tail(fieldsWithFilters))

(* A variant: objectID assigned before the pick, whose fields overwrite it *)
prepareContentPickLast(initialContent, fields, fieldsWithFilters) ==
  LET tagsAndCategoriesFields ==
        SelectSeq(<<s_tags, s_categories>>, LAMBDA field : field \in Elements(fields))
      picked == pick(initialContent, fields)
      start ==
        [contentToIndex |->
           [k \in DOMAIN picked \cup {s_objectID} |->
              IF k \in DOMAIN picked THEN picked[k] ELSE initialContent[s_id]],
         warns |-> <<>>, calls |-> <<>>, threw |-> FALSE]
  IN executeFields(extractAll(start, initialContent, tagsAndCategoriesFields),
                   initialContent, fieldsWithFilters)

(* lines 65-106: the map callback on one record *)
prepareContent(initialContent, fields, fieldsWithFilters) ==
  LET tagsAndCategoriesFields ==
        SelectSeq(<<s_tags, s_categories>>, LAMBDA field : field \in Elements(fields))
      picked == Put(pick(initialContent, fields), s_objectID, initialContent[s_id])
      start == [contentToIndex |-> picked, warns |-> <<>>, calls |-> <<>>, threw |-> FALSE]
  IN executeFields(extractAll(start, initialContent, tagsAndCategoriesFields),
                   initialContent, fieldsWithFilters)

(* lines 62-107: contents.map.  execs holds the execution of every record
   the callback ran on, in input order; value is the array returned, and
   threw says that a callback threw instead (nothing is returned then). *)
RECURSIVE prepareFrom(_, _, _, _)
prepareFrom(result, contents, fields, fieldsWithFilters) ==
  IF Len(contents) = 0 \/ result.threw THEN result
  ELSE LET exec == prepareContent(Head(contents), fields, fieldsWithFilters)
       IN prepareFrom(
            [execs |-> Append(result.execs, exec),
             value |-> IF exec.threw THEN <<>>
                       ELSE Append(result.value, exec.contentToIndex),
             threw |-> exec.threw],
            Tail(contents), fields, fieldsWithFilters)

prepareContents(contents, fields, fieldsWithFilters) ==
  prepareFrom([execs |-> <<>>, value |-> <<>>, threw |-> FALSE],
              contents, fields, fieldsWithFilters)

(* The warnings of a call of prepareContents, in the order logged. *)
RECURSIVE warnings(_)
warnings(execs) ==
  IF Len(execs) = 0 THEN <<>> ELSE Head(execs).warns \o warnings(Tail(execs))

(***************************************************************************)
(* Content records the host database can hold.  A taxonomy relation is a   *)
(* record with the field data, the sequence of its terms.                  *)
(***************************************************************************)
Term(name) == [name |-> name, slug |-> <<"s", "-">> \o name]

Relation(names) == [data |-> [i \in 1..Len(names) |-> Term(names[i])]]

Record(id, title) == Put(Put(EmptyObject, s_id, id), s_title, title)

post1 ==
  Put(Put(Record(<<"p", "1">>, <<"a">>), s_content, s_hello),
      s_tags, Relation(<< <<"x">>, <<"y">> >>))

post2 ==
  Put(Put(Record(<<"p", "2">>, <<"b">>), s_content, s_bhi), s_objectID, <<"z", "z">>)

post3 ==
  Put(Put(Record(<<"p", "3">>, <<"c">>), s_tags, Relation(<<>>)),
      s_categories, Relation(<< <<"n">> >>))

post4 ==
  Put(Put(Put(Put(Record(<<"p", "4">>, <<"d">>), s_content, s_hello),
              s_objectID, <<"z", "z">>),
          s_tags, Relation(<< <<"y">>, <<"x">>, <<"y">> >>)),
      s_categories, Relation(<<>>))

post5 == Record(<<"p", "5">>, <<"e">>)

page1 == Put(Record(<<"g", "1">>, <<"f">>), s_content, s_bhi)

(* Sequences of distinct elements of S, of length at most n: the records of
   a database, the documents of an array *)
SeqsUpTo(S, n) ==
  {seq \in UNION {[1..k -> S] : k \in 0..n} :
     \A i, j \in 1..Len(seq) : i # j => seq[i] # seq[j]}

(* Subsequences of list of length at most n, in the order of list *)
RECURSIVE Keep(_, _, _)
Keep(list, I, i) ==
  IF i > Len(list) THEN <<>>
  ELSE (IF i \in I THEN <<list[i]>> ELSE <<>>) \o Keep(list, I, i + 1)

SubSeqsUpTo(list, n) ==
  {Keep(list, I, 1) : I \in {J \in SUBSET (1..Len(list)) : Cardinality(J) <= n}}

FieldSpecs ==
  <<s_title, s_objectID, s_tags, s_categories, f_excerptStrip, f_contentStrip,
    f_contentTruncate, f_contentStripTruncate, f_contentTruncateStrip,
    f_contentLower, f_contentToString>>

RecordSet == {post1, post2, post3, post4, post5}

(***************************************************************************)
(* State.                                                                  *)
(***************************************************************************)
VARIABLES
  pc,            \* where the run, or the function under study, stands
  args,          \* algoliaCommand's args: present or not, and its n
  hexoConfig,    \* hexo.config.algolia: fields.post_fields, fields.page_fields, chunkSize
  database,      \* the records find().sort().toArray() returns: Post, Page
  posts, pages,  \* algoliaCommand's locals
  array, chunkSize, newArrays, chunks,   \* splitIntoChunks: parameters and locals
  requests,      \* the requests sent to the index, in the order issued
  settled,       \* per request: "pending", "resolved" or "rejected"
  firstRejection,\* the saveObjects request that rejected first, 0 if none
  log,           \* the events logged through hexo.log
  callbacks,     \* the invocations of callback
  promise,       \* the promise algoliaCommand returned
  contents, fieldSpecs, result   \* a call of prepareContents under study

vars ==
  <<pc, args, hexoConfig, database, posts, pages, array, chunkSize, newArrays,
    chunks, requests, settled, firstRejection, log, callbacks, promise,
    contents, fieldSpecs, result>>

runVars ==
  <<args, hexoConfig, database, posts, pages, requests, settled, firstRejection,
    log, callbacks, promise>>

splitVars == <<array, chunkSize, newArrays, chunks>>

prepVars == <<contents, fieldSpecs, result>>

NoRun ==
  /\ args = [present |-> FALSE, n |-> FALSE]
  /\ hexoConfig = [post_fields |-> <<>>, page_fields |-> <<>>, chunkSize |-> 0]
  /\ database = [Post |-> <<>>, Page |-> <<>>]
  /\ posts = <<>> /\ pages = <<>>
  /\ requests = <<>> /\ settled = <<>> /\ firstRejection = 0
  /\ log = <<>> /\ callbacks = <<>> /\ promise = "pending"

NoSplit == array = <<>> /\ chunkSize = 0 /\ newArrays = <<>> /\ chunks = <<>>

NoPrep == contents = <<>> /\ fieldSpecs = <<>> /\ result = <<>>

(***************************************************************************)
(* prepareContents on its own: every input within the bounds, one call.    *)
(***************************************************************************)
InitPrep ==
  /\ pc = "prepare"
  /\ contents \in SeqsUpTo(RecordSet, MaxRecords)
  /\ fieldSpecs \in SubSeqsUpTo(FieldSpecs, MaxSpecs)
  /\ result = <<>>
  /\ NoRun /\ NoSplit

CallPrepareContents ==
  /\ pc = "prepare"
  /\ result' = prepareContents(contents, getBasicFields(fieldSpecs),
                               getFieldsWithFilters(fieldSpecs))
  /\ pc' = "prepared"
  /\ UNCHANGED <<contents, fieldSpecs, runVars, splitVars>>

NextPrep == CallPrepareContents

SpecPrep == InitPrep /\ [][NextPrep]_vars

(***************************************************************************)
(* splitIntoChunks, one iteration of its while loop at a time.             *)
(***************************************************************************)

(* A variant: one element more is removed than is returned *)
spliceOneMore(list, deleteCount) ==
  LET count == Min(Max(deleteCount, 0), Len(list))
  IN [deleted |-> SubSeq(list, 1, count),
      left |-> SubSeq(list, count + 2, Len(list))]

(* Array.prototype.splice(0, deleteCount): the deleted elements and what is
   left; deleteCount is clamped to 0..length *)
splice(list, deleteCount) ==
  LET count == Min(Max(deleteCount, 0), Len(list))
  IN [deleted |-> SubSeq(list, 1, count),
      left |-> SubSeq(list, count + 1, Len(list))]

(* lines 48-50: while (newArrays.length) chunks.push(newArrays.splice(0, chunkSize)) *)
SplitLoop ==
  /\ pc = "split"
  /\ Len(newArrays) # 0
  /\ chunks' = Append(chunks, splice(newArrays, chunkSize).deleted)
  /\ newArrays' = splice(newArrays, chunkSize).left
  /\ UNCHANGED <<pc, array, chunkSize, runVars, prepVars>>

(* line 51: return chunks *)
SplitReturn ==
  /\ pc = "split"
  /\ Len(newArrays) = 0
  /\ pc' = "chunked"
  /\ UNCHANGED <<splitVars, runVars, prepVars>>

Documents == 1..MaxLen

InitChunk ==
  /\ pc = "split"
  /\ array \in SeqsUpTo(Documents, MaxLen)
  /\ chunkSize \in 1..MaxChunkSize
  /\ newArrays = array
  /\ chunks = <<>>
  /\ NoRun /\ NoPrep

NextChunk == SplitLoop \/ SplitReturn

SpecChunk == InitChunk /\ [][NextChunk]_vars /\ WF_vars(NextChunk)

(***************************************************************************)
(* algoliaCommand.                                                         *)
(***************************************************************************)
DefaultChunkSize == 5000

PostSet == {post1, post2, post5}

PageSet == {page1}

PostFieldChoices ==
  {<<s_title, f_contentStrip>>, <<s_tags, s_title>>, <<f_excerptStrip, f_contentTruncate>>,
   <<f_contentLower>>, <<f_contentToString>>, <<s_objectID, f_contentStripTruncate>>}

PageFieldChoices == {<<s_title>>, <<s_title, f_contentStrip>>, <<s_tags>>}

Init ==
  /\ pc = "generate"
  /\ args \in {[present |-> FALSE, n |-> FALSE]} \cup [present : {TRUE}, n : BOOLEAN]
  /\ hexoConfig \in [post_fields : PostFieldChoices, page_fields : PageFieldChoices,
                     chunkSize : 0..MaxConfigChunk]
  /\ database \in [Post : SeqsUpTo(PostSet, MaxPosts), Page : SeqsUpTo(PageSet, MaxPages)]
  /\ posts = <<>> /\ pages = <<>>
  /\ requests = <<>> /\ settled = <<>> /\ firstRejection = 0
  /\ log = <<>> /\ callbacks = <<>> /\ promise = "pending"
  /\ NoSplit /\ NoPrep

Event(name, detail) == [event |-> name, detail |-> detail]

Info(name) == Event(name, <<>>)

(* hexo.log.warn of line 85, once per warning of a prepareContents call *)
WarnEvents(execs) ==
  [i \in 1..Len(warnings(execs)) |->
     Event("warn_no_field", <<warnings(execs)[i].title, warnings(execs)[i].field>>)]

(* line 138: await hexo.call('generate'); a rejection rejects the run *)
Generate ==
  /\ pc = "generate"
  /\ \E ok \in BOOLEAN :
       IF ok THEN pc' = "load" /\ UNCHANGED promise
       ELSE pc' = "done" /\ promise' = "rejected"
  /\ UNCHANGED <<args, hexoConfig, database, posts, pages, requests, settled,
                 firstRejection, log, callbacks, splitVars, prepVars>>

(* line 139: await hexo.database.load() *)
Load ==
  /\ pc = "load"
  /\ \E ok \in BOOLEAN :
       IF ok THEN pc' = "find" /\ UNCHANGED promise
       ELSE pc' = "done" /\ promise' = "rejected"
  /\ UNCHANGED <<args, hexoConfig, database, posts, pages, requests, settled,
                 firstRejection, log, callbacks, splitVars, prepVars>>

(* A variant: no early return when there is no post *)
FindPostsNoReturn ==
  /\ pc = "find"
  /\ posts' = database.Post
  /\ pc' = "transformPosts"
  /\ UNCHANGED <<args, hexoConfig, database, pages, requests, settled,
                 firstRejection, log, callbacks, promise, splitVars, prepVars>>

(* lines 141-146: the published posts; none: log, callback(), return *)
FindPosts ==
  /\ pc = "find"
  /\ posts' = database.Post
  /\ IF Len(database.Post) = 0
     THEN /\ log' = Append(log, Info("no_post"))
          /\ callbacks' = Append(callbacks, [failed |-> FALSE, request |-> 0])
          /\ promise' = "fulfilled"
          /\ pc' = "done"
     ELSE /\ pc' = "transformPosts"
          /\ UNCHANGED <<log, callbacks, promise>>
  /\ UNCHANGED <<args, hexoConfig, database, pages, requests, settled,
                 firstRejection, splitVars, prepVars>>

(* line 147: posts = prepareContents(posts, postFields, postFieldsWithFilters);
   a throw inside rejects the promise of the async function *)
TransformPosts ==
  /\ pc = "transformPosts"
  /\ LET prepared == prepareContents(posts, getBasicFields(hexoConfig.post_fields),
                                     getFieldsWithFilters(hexoConfig.post_fields))
     IN /\ log' = log \o WarnEvents(prepared.execs)
        /\ IF prepared.threw
           THEN pc' = "done" /\ promise' = "rejected" /\ UNCHANGED posts
           ELSE pc' = "transformPages" /\ posts' = prepared.value /\ UNCHANGED promise
  /\ UNCHANGED <<args, hexoConfig, database, pages, requests, settled,
                 firstRejection, callbacks, splitVars, prepVars>>

(* lines 149-151: pages = prepareContents(all pages, pageFields, pageFieldsWithFilters) *)
TransformPages ==
  /\ pc = "transformPages"
  /\ LET prepared == prepareContents(database.Page, getBasicFields(hexoConfig.page_fields),
                                     getFieldsWithFilters(hexoConfig.page_fields))
     IN /\ log' = log \o WarnEvents(prepared.execs)
        /\ IF prepared.threw
           THEN pc' = "done" /\ promise' = "rejected" /\ UNCHANGED pages
           ELSE pc' = "concat" /\ pages' = prepared.value /\ UNCHANGED promise
  /\ UNCHANGED <<args, hexoConfig, database, posts, requests, settled,
                 firstRejection, callbacks, splitVars, prepVars>>

(* lines 153-155 and 46-47: contents = posts.concat(pages); the call of
   splitIntoChunks(contents, algoliaConfig.chunkSize || 5000) copies the array *)
Concat ==
  /\ pc = "concat"
  /\ array' = posts \o pages
  /\ chunkSize' = IF hexoConfig.chunkSize = 0 THEN DefaultChunkSize
                  ELSE hexoConfig.chunkSize
  /\ newArrays' = posts \o pages
  /\ chunks' = <<>>
  /\ pc' = "split"
  /\ UNCHANGED <<runVars, prepVars>>

(* A variant: the n flag is not read *)
ClearRequestedIgnoringN == args.present

(* line 159: args && !args.n *)
ClearRequested == args.present /\ ~ args.n

(* lines 159-162: if (args && !args.n): log, then await clearObjects() *)
ClearIssue ==
  /\ pc = "chunked"
  /\ ClearRequested
  /\ log' = Append(log, Info("clearing"))
  /\ requests' = Append(requests, [op |-> "clearObjects", objects |-> <<>>])
  /\ settled' = Append(settled, "pending")
  /\ pc' = "awaitClear"
  /\ UNCHANGED <<args, hexoConfig, database, posts, pages, firstRejection,
                 callbacks, promise, splitVars, prepVars>>

ClearSkip ==
  /\ pc = "chunked"
  /\ ~ ClearRequested
  /\ pc' = "upload"
  /\ UNCHANGED <<runVars, splitVars, prepVars>>

(* A variant: the failure is handed to callback without the return *)
ClearSettleContinues ==
  /\ pc = "awaitClear"
  /\ \E ok \in BOOLEAN :
       IF ok
       THEN /\ settled' = [settled EXCEPT ![Len(requests)] = "resolved"]
            /\ log' = Append(log, Info("cleared"))
            /\ UNCHANGED <<callbacks, promise>>
       ELSE /\ settled' = [settled EXCEPT ![Len(requests)] = "rejected"]
            /\ log' = Append(log, Event("clear_error", <<Len(requests)>>))
            /\ callbacks' = Append(callbacks, [failed |-> TRUE, request |-> Len(requests)])
            /\ UNCHANGED promise
  /\ pc' = "upload"
  /\ UNCHANGED <<args, hexoConfig, database, posts, pages, requests,
                 firstRejection, splitVars, prepVars>>

(* lines 162-168: the clear request settles; a failure is logged and handed
   to callback, and the function returns *)
ClearSettle ==
  /\ pc = "awaitClear"
  /\ \E ok \in BOOLEAN :
       IF ok
       THEN /\ settled' = [settled EXCEPT ![Len(requests)] = "resolved"]
            /\ log' = Append(log, Info("cleared"))
            /\ pc' = "upload"
            /\ UNCHANGED <<callbacks, promise>>
       ELSE /\ settled' = [settled EXCEPT ![Len(requests)] = "rejected"]
            /\ log' = Append(log, Event("clear_error", <<Len(requests)>>))
            /\ callbacks' = Append(callbacks, [failed |-> TRUE, request |-> Len(requests)])
            /\ promise' = "fulfilled"
            /\ pc' = "done"
  /\ UNCHANGED <<args, hexoConfig, database, posts, pages, requests,
                 firstRejection, splitVars, prepVars>>

(* lines 171-173: log, then chunkedContents.map(saveObjects): every request
   is issued before the await *)
Upload ==
  /\ pc = "upload"
  /\ log' = Append(log, Info("indexing"))
  /\ requests' = requests \o [i \in 1..Len(chunks) |->
                                [op |-> "saveObjects", objects |-> chunks[i]]]
  /\ settled' = settled \o [i \in 1..Len(chunks) |-> "pending"]
  /\ pc' = "awaitAll"
  /\ UNCHANGED <<args, hexoConfig, database, posts, pages, firstRejection,
                 callbacks, promise, splitVars, prepVars>>

(* A saveObjects request settles, whenever the index answers. *)
SaveSettle ==
  /\ \E i \in 1..Len(requests) :
       /\ requests[i].op = "saveObjects"
       /\ settled[i] = "pending"
       /\ \E ok \in BOOLEAN :
            IF ok
            THEN /\ settled' = [settled EXCEPT ![i] = "resolved"]
                 /\ UNCHANGED firstRejection
            ELSE /\ settled' = [settled EXCEPT ![i] = "rejected"]
                 /\ firstRejection' = IF firstRejection = 0 THEN i ELSE firstRejection
  /\ UNCHANGED <<pc, args, hexoConfig, database, posts, pages, requests, log,
                 callbacks, promise, splitVars, prepVars>>

(* A variant: Promise.race in the place of Promise.all, resuming on the
   first request that settles *)
UploadResumeRace ==
  /\ pc = "awaitAll"
  /\ IF firstRejection # 0
     THEN /\ log' = Append(log, Event("index_error", <<firstRejection>>))
          /\ callbacks' = Append(callbacks, [failed |-> TRUE, request |-> firstRejection])
     ELSE /\ \E i \in 1..Len(requests) :
               requests[i].op = "saveObjects" /\ settled[i] = "resolved"
          /\ log' = Append(log, Event("indexed", <<Len(posts)>>))
          /\ UNCHANGED callbacks
  /\ promise' = "fulfilled"
  /\ pc' = "done"
  /\ UNCHANGED <<args, hexoConfig, database, posts, pages, requests, settled,
                 firstRejection, splitVars, prepVars>>

(* lines 173-179: Promise.all resumes the function: rejected with the first
   rejection, or fulfilled once every request resolved *)
UploadResume ==
  /\ pc = "awaitAll"
  /\ IF firstRejection # 0
     THEN /\ log' = Append(log, Event("index_error", <<firstRejection>>))
          /\ callbacks' = Append(callbacks, [failed |-> TRUE, request |-> firstRejection])
     ELSE /\ \A i \in 1..Len(requests) : settled[i] = "resolved"
          /\ log' = Append(log, Event("indexed", <<Len(posts)>>))
          /\ UNCHANGED callbacks
  /\ promise' = "fulfilled"
  /\ pc' = "done"
  /\ UNCHANGED <<args, hexoConfig, database, posts, pages, requests, settled,
                 firstRejection, splitVars, prepVars>>

Next ==
  \/ Generate \/ Load \/ FindPosts \/ TransformPosts \/ TransformPages
  \/ Concat \/ SplitLoop \/ SplitReturn
  \/ ClearIssue \/ ClearSkip \/ ClearSettle
  \/ Upload \/ SaveSettle \/ UploadResume

Spec == Init /\ [][Next]_vars

(***************************************************************************)
(* What the statements below observe.                                      *)
(***************************************************************************)
RequestsOf(op) == {i \in 1..Len(requests) : requests[i].op = op}

ClearIssued == RequestsOf("clearObjects") # {}

Logged(name) == \E i \in 1..Len(log) : log[i].event = name

(* The run went past the decision of line 159. *)
PastClearDecision ==
  pc \in {"awaitClear", "upload", "awaitAll"} \/ (pc = "done" /\ chunks # <<>>)

UploadIssued == Logged("indexing")

RECURSIVE Flatten(_)
Flatten(lists) ==
  IF Len(lists) = 0 THEN <<>> ELSE Head(lists) \o Flatten(Tail(lists))

(* The documents of the saveObjects requests, in the order issued. *)
Uploaded ==
  Flatten([i \in 1..Len(requests) |->
             IF requests[i].op = "saveObjects" THEN requests[i].objects ELSE <<>>])

(***************************************************************************)
(* C1.  As stated: in a run that reaches the clear step, a clear request   *)
(* is issued if and only if the suppress flag args.n is not set.           *)
(***************************************************************************)
FlagSet == args.present /\ args.n

\* C1, as stated: clear request issued <=> n flag not set.
C1_ClearIffFlagNotSet == PastClearDecision => (ClearIssued <=> ~ FlagSet)

(* C1, amended: a clear request is issued exactly in the runs that reach
   the clear step with args given and args.n not set; a run called without
   args issues none.  Whenever the upload is reached without a clear
   request, one saveObjects request per chunk carries every transformed
   document. *)
C1_ClearIffArgsAndFlagNotSet ==
  /\ ClearIssued <=> (PastClearDecision /\ args.present /\ ~ args.n)
  /\ (pc \in {"awaitAll", "done"} /\ PastClearDecision /\ ~ ClearIssued)
       => (UploadIssued /\ Uploaded = posts \o pages /\ Len(posts) = Len(database.Post)
           /\ Len(pages) = Len(database.Page))

C1_Witness ==
  /\ pc = "awaitAll" /\ args.present /\ args.n
  /\ ~ ClearIssued
  /\ Cardinality(RequestsOf("saveObjects")) >= 2

(***************************************************************************)
(* C2.  No saveObjects request is issued before the clear request has      *)
(* resolved; a rejected clear request ends the run with no saveObjects     *)
(* request and with callback invoked once, with that error.                *)
(***************************************************************************)
\* C2: clear resolves before any saveObjects; a rejected clear ends the run with the error.
C2_ClearBeforeUpload ==
  \A c \in RequestsOf("clearObjects") :
    /\ \A u \in RequestsOf("saveObjects") : c < u /\ settled[c] = "resolved"
    /\ settled[c] = "rejected"
         => /\ pc = "done"
            /\ callbacks = <<[failed |-> TRUE, request |-> c]>>
            /\ Logged("clear_error") /\ ~ UploadIssued

C2_Witness ==
  /\ pc = "done"
  /\ \E c \in RequestsOf("clearObjects") : settled[c] = "rejected"
  /\ Len(chunks) >= 2
  /\ Len(callbacks) = 1

(***************************************************************************)
(* C3.  The upload issues, in one step, exactly one saveObjects request    *)
(* per chunk of posts followed by pages, and never another; "N posts       *)
(* indexed" is logged only when every request resolved, N the number of    *)
(* posts; a run that ends with a rejected request has invoked callback     *)
(* exactly once, with the error of the first rejection.                    *)
(***************************************************************************)
SaveRequests == SelectSeq(requests, LAMBDA r : r.op = "saveObjects")

\* C3: one saveObjects per chunk, all-or-nothing outcome, a single callback on failure.
C3_OneRequestPerChunk ==
  /\ Len(SaveRequests) \in {0, Len(chunks)}
  /\ UploadIssued
       => /\ Len(SaveRequests) = Len(chunks)
          /\ \A i \in 1..Len(chunks) : SaveRequests[i].objects = chunks[i]
          /\ Flatten(chunks) = posts \o pages
  /\ Len(callbacks) <= 1
  /\ Logged("indexed")
       => /\ \A i \in 1..Len(requests) : settled[i] = "resolved"
          /\ log[Len(log)] = Event("indexed", <<Len(database.Post)>>)
          /\ callbacks = <<>>
  /\ (pc = "awaitAll" /\ \E u \in RequestsOf("saveObjects") : settled[u] = "rejected")
       => (firstRejection # 0 /\ ENABLED UploadResume)
  /\ (pc = "done" /\ \E u \in RequestsOf("saveObjects") : settled[u] = "rejected")
       => /\ callbacks = <<[failed |-> TRUE, request |-> firstRejection]>>
          /\ settled[firstRejection] = "rejected"
          /\ requests[firstRejection].op = "saveObjects"
          /\ ~ Logged("indexed")

C3_Witness ==
  /\ pc = "done"
  /\ Len(SaveRequests) >= 2
  /\ \E u, v \in RequestsOf("saveObjects") :
       settled[u] = "rejected" /\ settled[v] = "resolved"
  /\ Len(callbacks) = 1

(***************************************************************************)
(* C4.  With zero published posts the run ends at the fetch step: callback *)
(* is invoked once without an error, no request is ever issued and the     *)
(* pages are not transformed, whatever the pages and args.                 *)
(***************************************************************************)
C4_NoPostsNoRequests ==
  Len(database.Post) = 0
    => /\ requests = <<>>
       /\ pages = <<>>
       /\ pc \in {"generate", "load", "find", "done"}
       /\ (pc = "done" /\ promise # "rejected")
            => /\ callbacks = <<[failed |-> FALSE, request |-> 0]>>
               /\ log = <<Info("no_post")>>
               /\ promise = "fulfilled"

C4_Witness ==
  /\ pc = "done" /\ promise = "fulfilled"
  /\ Len(database.Post) = 0 /\ Len(database.Page) > 0
  /\ args.present /\ ~ args.n
  /\ Len(callbacks) = 1

(***************************************************************************)
(* C5.  splitIntoChunks with chunkSize > 0 returns; the chunks pushed so   *)
(* far followed by what is left are the input, no chunk is empty or longer *)
(* than chunkSize, only the last may be shorter (and only once nothing is  *)
(* left), and an empty input gives no chunk.                               *)
(***************************************************************************)
C5_Shape ==
  /\ Flatten(chunks) \o newArrays = array
  /\ \A i \in 1..Len(chunks) :
       /\ Len(chunks[i]) >= 1
       /\ Len(chunks[i]) <= chunkSize
       /\ (i < Len(chunks) \/ Len(newArrays) > 0) => Len(chunks[i]) = chunkSize
  /\ pc = "chunked" => (newArrays = <<>> /\ Flatten(chunks) = array)
  /\ (pc = "chunked" /\ array = <<>>) => chunks = <<>>

\* C5: the shape holds throughout the loop, and the loop ends.
C5_SplitIntoChunks == [] C5_Shape /\ <>(pc = "chunked")

C5_Witness ==
  /\ pc = "chunked"
  /\ Len(chunks) >= 2
  /\ Len(chunks[Len(chunks)]) < chunkSize
  /\ \E i, j \in 1..Len(array) : array[i] # array[j]

(***************************************************************************)
(* What the statements about prepareContents observe.                      *)
(***************************************************************************)
Prepared == pc = "prepared"

FilterSpecs == {f \in Elements(fieldSpecs) : hasColon(f)}

FieldNameOf(f) == Head(split(f, ":"))

FilterNamesOf(f) ==
  {Head(split(Tail(split(f, ":"))[i], ",")) : i \in 1..Len(Tail(split(f, ":")))}

SelectedTaxonomies == {s_tags, s_categories} \cap Elements(fieldSpecs)

(* The key each filter-bearing spec of FieldSpecs is to be stored under. *)
KeyOf(f) ==
  CASE f = f_excerptStrip -> k_excerptStrip
    [] f = f_contentStrip -> k_contentStrip
    [] f = f_contentTruncate -> k_contentTruncate
    [] f = f_contentStripTruncate -> k_contentStripTruncate
    [] f = f_contentTruncateStrip -> k_contentTruncateStrip
    [] f = f_contentLower -> k_contentLower
    [] f = f_contentToString -> k_contentToString

CallsOf(exec, f) == SelectSeq(exec.calls, LAMBDA call : call.spec = f)

(***************************************************************************)
(* C6.  Every document prepareContents builds has objectID equal to the    *)
(* _id of the record at its position, also when objectID is a selected     *)
(* plain field and the record has an objectID of its own; the array        *)
(* returned has the length and the order of the input.                     *)
(***************************************************************************)
C6_ObjectID ==
  Prepared =>
    /\ \A i \in 1..Len(result.execs) :
         result.execs[i].contentToIndex[s_objectID] = contents[i][s_id]
    /\ ~ result.threw =>
         /\ Len(result.value) = Len(contents)
         /\ \A i \in 1..Len(contents) :
              /\ result.value[i] = result.execs[i].contentToIndex
              /\ result.value[i][s_objectID] = contents[i][s_id]

C6_Witness ==
  /\ Prepared /\ ~ result.threw
  /\ Len(contents) = 2
  /\ contents[1][s_id] # contents[2][s_id]
  /\ s_objectID \in Elements(fieldSpecs)
  /\ FilterSpecs # {}
  /\ hasOwnProperty(contents[2], s_objectID)
  /\ contents[2][s_objectID] # contents[2][s_id]

(***************************************************************************)
(* C7.  As stated: for each selected taxonomy field, a record that carries *)
(* it gets exactly the names of the relation's terms, in order; a record   *)
(* that does not carry it gets no such field, and its transformation and   *)
(* that of the following records proceed without failure.                  *)
(***************************************************************************)
TermNames(relation) == [k \in 1..Len(relation.data) |-> relation.data[k].name]

\* C7, as stated: term names when carried, omitted without failure when not.
C7_Taxonomy ==
  Prepared =>
    \A i \in 1..Len(result.execs) : \A t \in SelectedTaxonomies :
      IF hasOwnProperty(contents[i], t)
      THEN result.execs[i].contentToIndex[t] = TermNames(contents[i][t])
      ELSE /\ ~ result.execs[i].threw
           /\ ~ hasOwnProperty(result.execs[i].contentToIndex, t)

(***************************************************************************)
(* C8.  A filter-bearing spec whose field a record lacks: a warning with   *)
(* the record's title and the field name, no filter call, no key for the   *)
(* spec in the record's document.  It is never what aborts: a callback     *)
(* throws only for a missing selected taxonomy or a filter name that       *)
(* resolves to nothing on a field the record carries; otherwise every      *)
(* other spec of the record is applied and every record gets a document.   *)
(***************************************************************************)
Unresolvable(f) == \E name \in FilterNamesOf(f) : lookupFilter(name) = <<>>

Trouble(record) ==
  \/ \E t \in SelectedTaxonomies : ~ hasOwnProperty(record, t)
  \/ \E f \in FilterSpecs : hasOwnProperty(record, FieldNameOf(f)) /\ Unresolvable(f)

\* C8: a missing filter field is warned about, skipped, and never aborts.
C8_MissingFieldSkipped ==
  Prepared =>
    /\ \A i \in 1..Len(result.execs) :
         LET exec == result.execs[i]
             record == contents[i]
         IN /\ exec.threw => Trouble(record)
            /\ \A f \in FilterSpecs :
                 IF hasOwnProperty(record, FieldNameOf(f))
                 THEN ~ exec.threw => hasOwnProperty(exec.contentToIndex, KeyOf(f))
                 ELSE /\ CallsOf(exec, f) = <<>>
                      /\ ~ hasOwnProperty(exec.contentToIndex, KeyOf(f))
                      /\ ~ exec.threw =>
                           \E w \in 1..Len(exec.warns) :
                             exec.warns[w] = [title |-> record[s_title], spec |-> f,
                                              field |-> FieldNameOf(f)]
    /\ ~ result.threw => Len(result.value) = Len(contents)
    /\ result.threw => Trouble(contents[Len(result.execs)])

C8_Witness ==
  /\ Prepared /\ ~ result.threw
  /\ Len(contents) = 2
  /\ fieldSpecs = <<f_excerptStrip, f_contentStrip>>
  /\ hasOwnProperty(result.value[1], k_contentStrip)
  /\ ~ hasOwnProperty(contents[2], s_content)
  /\ Len(result.execs[1].warns) = 1 /\ Len(result.execs[2].warns) = 2

(***************************************************************************)
(* C9.  A chain of registered filters on a record carrying the field: the  *)
(* key is the field name followed by the capitalized filter names, the     *)
(* value is the field's value passed through the filters left to right,    *)
(* each with its own arguments; truncate(value, start, end) is the         *)
(* substring of length end from start ('content:truncate,0,2' on 'hello'   *)
(* stores 'he' under contentTruncate).  The record is not modified.        *)
(***************************************************************************)
ChainSpecs ==
  {f_contentStrip, f_contentTruncate, f_contentStripTruncate, f_contentTruncateStrip}

(* What each chain is to give on each content of RecordSet, written out. *)
Expected(f, value) ==
  CASE f = f_contentStrip /\ value = s_hello -> s_hello
    [] f = f_contentStrip /\ value = s_bhi -> s_hi
    [] f = f_contentTruncate /\ value = s_hello -> s_he
    [] f = f_contentTruncate /\ value = s_bhi -> <<"<", "b">>
    [] f = f_contentStripTruncate /\ value = s_hello -> <<"e", "l", "l">>
    [] f = f_contentStripTruncate /\ value = s_bhi -> <<"i">>
    [] f = f_contentTruncateStrip /\ value = s_hello -> <<"e", "l", "l">>
    [] f = f_contentTruncateStrip /\ value = s_bhi -> <<"b", ">", "h">>

(* The filter calls each chain is to make: name, input, own arguments. *)
ExpectedCalls(f, value) ==
  CASE f = f_contentStrip -> << <<s_strip, value, <<>> >> >>
    [] f = f_contentTruncate -> << <<s_truncate, value, << <<"0">>, <<"2">> >> >> >>
    [] f = f_contentStripTruncate ->
         << <<s_strip, value, <<>> >>,
            <<s_truncate, Expected(f_contentStrip, value), << <<"1">>, <<"3">> >> >> >>
    [] f = f_contentTruncateStrip ->
         << <<s_truncate, value, << <<"1">>, <<"3">> >> >>,
            <<s_strip, IF value = s_hello THEN <<"e", "l", "l">> ELSE <<"b", ">", "h">>,
              <<>> >> >>

C9_State ==
  Prepared =>
    \A i \in 1..Len(result.execs) : \A f \in FilterSpecs \cap ChainSpecs :
      LET exec == result.execs[i]
          record == contents[i]
          made == CallsOf(exec, f)
      IN (~ exec.threw /\ hasOwnProperty(record, s_content)) =>
           /\ hasOwnProperty(exec.contentToIndex, KeyOf(f))
           /\ exec.contentToIndex[KeyOf(f)] = Expected(f, record[s_content])
           /\ [c \in 1..Len(made) |-> <<made[c].name, made[c].value, made[c].args>>]
                = ExpectedCalls(f, record[s_content])
           /\ s_content \in Elements(fieldSpecs) =>
                exec.contentToIndex[s_content] = record[s_content]

\* C9: keys, values and calls are as written out above, and the records stay as they were.
C9_FilterChain == [] C9_State /\ [][contents' = contents]_vars

C9_Witness ==
  /\ Prepared /\ ~ result.threw
  /\ fieldSpecs = <<f_contentTruncate, f_contentStripTruncate>>
  /\ Len(contents) = 2
  /\ hasOwnProperty(contents[1], s_content) /\ hasOwnProperty(contents[2], s_content)
  /\ contents[1][s_content] = s_hello /\ contents[2][s_content] = s_bhi
  /\ result.value[1][k_contentTruncate] = s_he
  /\ result.value[2][k_contentStripTruncate] = <<"i">>

(***************************************************************************)
(* C10.  As stated: a run with a post (or a page) that carries the field   *)
(* of a spec naming a filter FILTER_FUNCTIONS does not register issues no  *)
(* request and ends rejected.                                              *)
(***************************************************************************)
NamesUnregistered(f) == \E name \in FilterNamesOf(f) : name \notin FILTER_FUNCTIONS

ExecutesUnregistered(records, fields) ==
  \E i \in 1..Len(records) : \E j \in 1..Len(fields) :
    /\ hasColon(fields[j])
    /\ NamesUnregistered(fields[j])
    /\ hasOwnProperty(records[i], FieldNameOf(fields[j]))

\* C10: executing an unregistered filter leaves no request and a rejected run.
C10_UnregisteredFilterFatal ==
  (/\ Len(database.Post) > 0
   /\ \/ ExecutesUnregistered(database.Post, hexoConfig.post_fields)
      \/ ExecutesUnregistered(database.Page, hexoConfig.page_fields))
    => /\ requests = <<>>
       /\ pc = "done" => promise = "rejected"

============================================================================
